---- MODULE Spec2Model ----
(***************************************************************************)
(* A model of the standalone computing Table                               *)
(* (fate_arch/computing/standalone/_table.py) and of the namespace calls   *)
(* of the Pulsar admin client                                              *)
(* (python/fate_arch/federation/pulsar/_pulsar_manager.py).                *)
(*                                                                         *)
(* A Table object wraps a RawTable (fate_arch.standalone.Table).  The      *)
(* RawTable's operations (collect, count, reduce, save_as, map, ...) are   *)
(* modelled from the specification's description of the engine and are     *)
(* named Raw... below; the Table's own methods follow _table.py.           *)
(***************************************************************************)
EXTENDS Integers, Sequences, FiniteSets, TLC

VARIABLES
    raw,          \* heap of RawTable objects: raw[r][p] is partition p (a sequence of Entries)
    tables,       \* heap of Table objects: tables[t].table is the index of the wrapped RawTable
    schema,       \* the caller-owned schema mapping handed to save
    last,         \* the last call made on a Table: operator, receiver, arguments, outcome
    service_url,  \* PulsarManager.service_url
    requests      \* the HTTP requests the PulsarManager has sent, oldest first

vars == <<raw, tables, schema, last, service_url, requests>>

(***************************************************************************)
(* Bounds of the model.                                                    *)
(***************************************************************************)
NumPartitions == 2
MaxTake == 4
MaxTables == 2
MaxRequests == 2

(***************************************************************************)
(* Data: Entries, partitions, dictionaries.                                *)
(***************************************************************************)
Keys == {1, 2, 3}

ValueOf(k) == IF k = 1 THEN <<"a">> ELSE IF k = 2 THEN <<"b">> ELSE <<"c">>

Entry(k, v) == [k |-> k, v |-> v]

NoValue == <<>>

EmptyDict == <<>>

DictSet(d, k, v) == [x \in DOMAIN d \cup {k} |-> IF x = k THEN v ELSE d[x]]

Min(a, b) == IF a < b THEN a ELSE b

\* Sequences of distinct keys.
KeySeqs ==
    { s \in UNION { [1..n -> Keys] : n \in 0..Cardinality(Keys) } :
        \A i, j \in DOMAIN s : i # j => s[i] # s[j] }

RECURSIVE EntriesOf(_)
EntriesOf(ks) ==
    IF ks = <<>> THEN <<>>
    ELSE <<Entry(Head(ks), ValueOf(Head(ks)))>> \o EntriesOf(Tail(ks))

\* The tables a caller may start from: every placement of distinct-key
\* Entries into NumPartitions partitions, in every insertion order.
InitTables ==
    { [p \in 1..NumPartitions |-> EntriesOf(ks[p])] :
        ks \in { f \in [1..NumPartitions -> KeySeqs] :
                   \A p, q \in 1..NumPartitions :
                       p # q => { f[p][i] : i \in DOMAIN f[p] }
                                \cap { f[q][i] : i \in DOMAIN f[q] } = {} } }

(***************************************************************************)
(* RawTable, as far as the Table's action operators use it.                *)
(***************************************************************************)
\* collect(): partition index ascending, insertion order within a partition.
RECURSIVE RawCollectFrom(_, _)
RawCollectFrom(rt, p) ==
    IF p > Len(rt) THEN <<>> ELSE rt[p] \o RawCollectFrom(rt, p + 1)

RawCollect(rt) == RawCollectFrom(rt, 1)

RECURSIVE RawCountFrom(_, _)
RawCountFrom(rt, p) ==
    IF p > Len(rt) THEN 0 ELSE Len(rt[p]) + RawCountFrom(rt, p + 1)

RawCount(rt) == RawCountFrom(rt, 1)

(***************************************************************************)
(* User-supplied functions.  A function is named by a string; Raises says  *)
(* on which arguments it throws.                                           *)
(***************************************************************************)
Funcs == {"concat", "twice", "fail_on_c"}

FuncRaises(func, a, b) == func = "fail_on_c" /\ b = <<"c">>

Func(func, a, b) == IF func = "twice" THEN a \o a \o b ELSE a \o b

KeyFuncs == {"None", "mod2", "const", "fail_on_3"}

KeyFuncRaises(key_func, k) == key_func = "fail_on_3" /\ k = 3

KeyFunc(key_func, k) == IF key_func = "const" THEN 0 ELSE k % 2

\* RawTable.reduce(func): one fold over all values in collect order.
RECURSIVE RawReduceLoop(_, _, _, _, _)
RawReduceLoop(func, it, i, acc, calls) ==
    IF i > Len(it)
    THEN [status |-> "ok", value |-> acc, calls |-> calls, collects |-> 0, read |-> Len(it)]
    ELSE LET c == Append(calls, [fn |-> "func", entry |-> i,
                                 raised |-> FuncRaises(func, acc, it[i].v)])
         IN  IF FuncRaises(func, acc, it[i].v)
             THEN [status |-> "raised", value |-> NoValue, calls |-> c,
                   collects |-> 0, read |-> i]
             ELSE RawReduceLoop(func, it, i + 1, Func(func, acc, it[i].v), c)

RawReduce(rt, func) ==
    LET it == RawCollect(rt)
    IN  IF it = <<>>
        THEN [status |-> "ok", value |-> NoValue, calls |-> <<>>, collects |-> 0, read |-> 0]
        ELSE RawReduceLoop(func, it, 2, it[1].v, <<>>)

(***************************************************************************)
(* Table: the action operators.  Each returns the outcome of the call:     *)
(* status "ok" with the returned value, or the exception raised; calls is  *)
(* the log of user-function invocations, collects the number of times      *)
(* self._table.collect() was called, read the number of Entries pulled     *)
(* from its iterator.                                                      *)
(***************************************************************************)
Ok(value, collects, read) ==
    [status |-> "ok", value |-> value, calls |-> <<>>, collects |-> collects, read |-> read]

Raise(exc, collects, read) ==
    [status |-> exc, value |-> NoValue, calls |-> <<>>, collects |-> collects, read |-> read]

count(self) == Ok(RawCount(raw[tables[self].table]), 0, 0)

collect(self) == RawCollect(raw[tables[self].table])

islice_one_more(it, n) == SubSeq(it, 1, Min(Len(it), n + 1))

\* itertools.islice(it, n): at most n items, pulled one at a time.
RECURSIVE islice(_, _)
islice(it, n) ==
    IF n <= 0 \/ it = <<>> THEN <<>> ELSE <<Head(it)>> \o islice(Tail(it), n - 1)

take_negative_only(self, n) ==
    IF n < 0
    THEN Raise("ValueError", 0, 0)
    ELSE LET resp == islice(collect(self), n) IN Ok(resp, 1, Len(resp))

take(self, n) ==
    IF n <= 0
    THEN Raise("ValueError", 0, 0)
    ELSE LET resp == islice(collect(self), n) IN Ok(resp, 1, Len(resp))

first_needs_two(self) ==
    LET resp == take(self, 1)
    IN  IF Len(resp.value) <= 1
        THEN Raise("RuntimeError", resp.collects, resp.read)
        ELSE Ok(resp.value[1], resp.collects, resp.read)

first(self) ==
    LET resp == take(self, 1)
    IN  IF Len(resp.value) < 1
        THEN Raise("RuntimeError", resp.collects, resp.read)
        ELSE Ok(resp.value[1], resp.collects, resp.read)

accumulate_swapped(func, ret, agg_key, v) ==
    DictSet(ret, agg_key, Func(func, v, ret[agg_key]))

\* ret[agg_key] = func(ret[agg_key], v)
accumulate(func, ret, agg_key, v) ==
    DictSet(ret, agg_key, Func(func, ret[agg_key], v))

RECURSIVE reduceLoop(_, _, _, _, _, _)
reduceLoop(func, key_func, it, i, ret, calls) ==
    IF i > Len(it)
    THEN [status |-> "ok", value |-> ret, calls |-> calls, collects |-> 1, read |-> Len(it)]
    ELSE LET k  == it[i].k
             v  == it[i].v
             c1 == Append(calls, [fn |-> "key_func", entry |-> i,
                                  raised |-> KeyFuncRaises(key_func, k)])
         IN  IF KeyFuncRaises(key_func, k)
             THEN [status |-> "raised", value |-> NoValue, calls |-> c1,
                   collects |-> 1, read |-> i]
             ELSE LET agg_key == KeyFunc(key_func, k)
                  IN  IF agg_key \in DOMAIN ret
                      THEN LET c2 == Append(c1, [fn |-> "func", entry |-> i,
                                                 raised |-> FuncRaises(func, ret[agg_key], v)])
                           IN  IF FuncRaises(func, ret[agg_key], v)
                               THEN [status |-> "raised", value |-> NoValue, calls |-> c2,
                                     collects |-> 1, read |-> i]
                               ELSE reduceLoop(func, key_func, it, i + 1,
                                               accumulate(func, ret, agg_key, v), c2)
                      ELSE reduceLoop(func, key_func, it, i + 1, DictSet(ret, agg_key, v), c1)

reduce_swallow(self, func, key_func) ==
    LET r == IF key_func = "None"
             THEN RawReduce(raw[tables[self].table], func)
             ELSE reduceLoop(func, key_func, collect(self), 1, EmptyDict, <<>>)
    IN  IF r.status = "raised" THEN [r EXCEPT !.status = "ok", !.value = EmptyDict] ELSE r

reduce(self, func, key_func) ==
    IF key_func = "None"
    THEN RawReduce(raw[tables[self].table], func)
    ELSE reduceLoop(func, key_func, collect(self), 1, EmptyDict, <<>>)

(***************************************************************************)
(* The calls a caller makes.                                               *)
(***************************************************************************)
Call(op, self, args, r) ==
    [op |-> op, self |-> self, args |-> args, status |-> r.status, value |-> r.value,
     calls |-> r.calls, collects |-> r.collects, read |-> r.read]

NoCall == Call("none", 0, <<>>, Ok(NoValue, 0, 0))

DoCount ==
    \E t \in DOMAIN tables :
        /\ last' = Call("count", t, <<>>, count(t))
        /\ UNCHANGED <<raw, tables, schema, service_url, requests>>

DoCollect ==
    \E t \in DOMAIN tables :
        /\ last' = Call("collect", t, <<>>, Ok(collect(t), 1, 0))
        /\ UNCHANGED <<raw, tables, schema, service_url, requests>>

DoTake ==
    \E t \in DOMAIN tables, n \in -1..MaxTake :
        /\ last' = Call("take", t, <<n>>, take(t, n))
        /\ UNCHANGED <<raw, tables, schema, service_url, requests>>

DoFirst ==
    \E t \in DOMAIN tables :
        /\ last' = Call("first", t, <<>>, first(t))
        /\ UNCHANGED <<raw, tables, schema, service_url, requests>>

DoReduce ==
    \E t \in DOMAIN tables, func \in Funcs, key_func \in KeyFuncs :
        /\ last' = Call("reduce", t, <<func, key_func>>, reduce(t, func, key_func))
        /\ UNCHANGED <<raw, tables, schema, service_url, requests>>

InitWith(Tables, TableSchemas, CallerSchemas) ==
    /\ \E rt \in Tables : raw = <<rt>>
    /\ \E ts \in TableSchemas : tables = <<[table |-> 1, schema |-> ts]>>
    /\ schema \in CallerSchemas
    /\ last = NoCall
    /\ service_url = <<>>
    /\ requests = <<>>

Init == InitWith(InitTables, {EmptyDict}, {EmptyDict})

Next == DoCount \/ DoCollect \/ DoTake \/ DoFirst \/ DoReduce

Spec == Init /\ [][Next]_vars

(***************************************************************************)
(* Table.save.  An address is a record whose kind is its class; the        *)
(* RawTable's save_as either returns or throws an I/O error (persist).     *)
(***************************************************************************)
AddressKinds == {"EggRollAddress", "StandaloneAddress", "HDFSAddress"}

Addresses == [kind : AddressKinds, name : {"n1", "n2"}, namespace : {"ns1", "ns2"}]

PersistOutcomes == {"ok", "IOError"}

SchemaKeys == {"header", "sid"}

\* The schema mappings whose values all are val.
SchemasOf(val) == UNION { [ks -> {val}] : ks \in SUBSET SchemaKeys }

update_keep_existing(d, other) ==
    [k \in DOMAIN d \cup DOMAIN other |-> IF k \in DOMAIN d THEN d[k] ELSE other[k]]

\* dict.update(other): d after d.update(other).
update(d, other) ==
    [k \in DOMAIN d \cup DOMAIN other |-> IF k \in DOMAIN other THEN other[k] ELSE d[k]]

\* self._table.save_as(name=, namespace=, partition=, need_cleanup=), as the
\* sink sees it; schema_seen is the caller's mapping at the time of the call.
save_as(name, namespace, partition, need_cleanup, schema_seen, outcome) ==
    [fn |-> "save_as", name |-> name, namespace |-> namespace, partition |-> partition,
     need_cleanup |-> need_cleanup, schema_seen |-> schema_seen, raised |-> outcome # "ok"]

SaveResult(status, calls, sch) ==
    [status |-> status, value |-> NoValue, calls |-> calls, collects |-> 0, read |-> 0,
     schema |-> sch]

save_any_address(self, address, partitions, sch, outcome) ==
    LET c == save_as(address.name, address.namespace, partitions, FALSE, sch, outcome)
    IN  IF outcome # "ok"
        THEN SaveResult(outcome, <<c>>, sch)
        ELSE SaveResult("ok", <<c>>, update(sch, tables[self].schema))

save_update_first(self, address, partitions, sch, outcome) ==
    IF address.kind = "EggRollAddress"
    THEN LET merged == update(sch, tables[self].schema)
             c == save_as(address.name, address.namespace, partitions, FALSE, merged, outcome)
         IN  IF outcome # "ok"
             THEN SaveResult(outcome, <<c>>, merged)
             ELSE SaveResult("ok", <<c>>, merged)
    ELSE SaveResult("NotImplementedError", <<>>, sch)

\* sch is the content of the caller's mapping when save is called; the
\* result's schema is its content when save returns or throws.
save(self, address, partitions, sch, outcome) ==
    IF address.kind = "EggRollAddress"
    THEN LET c == save_as(address.name, address.namespace, partitions, FALSE, sch, outcome)
         IN  IF outcome # "ok"
             THEN SaveResult(outcome, <<c>>, sch)
             ELSE SaveResult("ok", <<c>>, update(sch, tables[self].schema))
    ELSE SaveResult("NotImplementedError", <<>>, sch)

DoSave ==
    \E t \in DOMAIN tables, address \in Addresses, partitions \in 1..NumPartitions,
       outcome \in PersistOutcomes :
        LET r == save(t, address, partitions, schema, outcome)
        IN  /\ last' = Call("save", t, <<address, partitions, schema>>, r)
            /\ schema' = r.schema
            /\ UNCHANGED <<raw, tables, service_url, requests>>

InitSave == InitWith(InitTables, SchemasOf("table"), SchemasOf("caller"))

SpecSave == InitSave /\ [][DoSave]_vars

(***************************************************************************)
(* RawTable: the transformation operators.  Each returns a new, fully      *)
(* materialized RawTable and leaves its receiver and argument as they are. *)
(***************************************************************************)
\* The Partitioner: key -> partition index in [0, n).
Partitioner(k, n) == k % n

RECURSIVE PlaceInto(_, _)
PlaceInto(entries, parts) ==
    IF entries = <<>> THEN parts
    ELSE LET e == Head(entries)
             p == Partitioner(e.k, Len(parts)) + 1
         IN  PlaceInto(Tail(entries), [parts EXCEPT ![p] = Append(@, e)])

\* Entries redistributed over n partitions by the Partitioner.
Place(entries, n) == PlaceInto(entries, [p \in 1..n |-> <<>>])

MapFuncs == {"next_key"}

\* f(key, value) -> (key', value')
MapFunc(f, e) == Entry((e.k % 3) + 1, e.v)

RECURSIVE MapEntries(_, _)
MapEntries(f, es) ==
    IF es = <<>> THEN <<>> ELSE <<MapFunc(f, Head(es))>> \o MapEntries(f, Tail(es))

RawMap(rt, f) == Place(MapEntries(f, RawCollect(rt)), Len(rt))

ValueFuncs == {"double"}

RECURSIVE MapValuesOf(_, _)
MapValuesOf(f, es) ==
    IF es = <<>> THEN <<>>
    ELSE <<Entry(Head(es).k, Head(es).v \o Head(es).v)>> \o MapValuesOf(f, Tail(es))

RawMapValues(rt, f) == [p \in 1..Len(rt) |-> MapValuesOf(f, rt[p])]

FlatMapFuncs == {"with_next_key"}

RECURSIVE FlatMapEntries(_, _)
FlatMapEntries(f, es) ==
    IF es = <<>> THEN <<>>
    ELSE <<Head(es), MapFunc("next_key", Head(es))>> \o FlatMapEntries(f, Tail(es))

RawFlatMap(rt, f) == Place(FlatMapEntries(f, RawCollect(rt)), Len(rt))

PartitionFuncs == {"reverse"}

RECURSIVE Reverse(_)
Reverse(es) == IF es = <<>> THEN <<>> ELSE Append(Reverse(Tail(es)), Head(es))

RawMapPartitions(rt, f) == [p \in 1..Len(rt) |-> Reverse(rt[p])]

\* A list of Entries as a payload: each Entry's key, then its value.
RECURSIVE ListPayload(_)
ListPayload(es) ==
    IF es = <<>> THEN <<>>
    ELSE <<ToString(Head(es).k)>> \o Head(es).v \o ListPayload(Tail(es))

RawGlom(rt) == [p \in 1..Len(rt) |-> <<Entry(p - 1, ListPayload(rt[p]))>>]

\* Fractions in percent; 150 is out of range.
Fractions == {0, 50, 100, 150}

Seeds == {0, 1}

RECURSIVE SampleFrom(_, _, _, _)
SampleFrom(es, j, fraction, seed) ==
    IF j > Len(es) THEN <<>>
    ELSE (IF fraction = 100 \/ (fraction = 50 /\ (seed + j) % 2 = 0) THEN <<es[j]>> ELSE <<>>)
         \o SampleFrom(es, j + 1, fraction, seed)

RawSample(rt, fraction, seed) == [p \in 1..Len(rt) |-> SampleFrom(rt[p], 1, fraction, seed + p)]

\* sample fails when the fraction is outside [0, 1].
RawSampleRaises(fraction) == fraction < 0 \/ fraction > 100

Preds == {"odd_key", "always"}

Pred(pred, e) == pred = "always" \/ e.k % 2 = 1

RECURSIVE FilterEntries(_, _)
FilterEntries(pred, es) ==
    IF es = <<>> THEN <<>>
    ELSE (IF Pred(pred, Head(es)) THEN <<Head(es)>> ELSE <<>>) \o FilterEntries(pred, Tail(es))

RawFilter(rt, pred) == [p \in 1..Len(rt) |-> FilterEntries(pred, rt[p])]

KeysOf(es) == { es[i].k : i \in DOMAIN es }

\* The value of the last Entry of es with key k (last write wins).
LastValue(es, k) ==
    es[CHOOSE i \in DOMAIN es : es[i].k = k /\ \A j \in DOMAIN es : es[j].k = k => j <= i].v

\* The distinct keys of es, in order of first occurrence.
RECURSIVE DistinctKeys(_, _)
DistinctKeys(es, seen) ==
    IF es = <<>> THEN <<>>
    ELSE IF Head(es).k \in seen THEN DistinctKeys(Tail(es), seen)
         ELSE <<Head(es).k>> \o DistinctKeys(Tail(es), seen \cup {Head(es).k})

JoinFuncs == {"concat"}

UnionFuncs == {"left"}

Func2(f, a, b) == IF f = "left" THEN a ELSE a \o b

RECURSIVE JoinKeys(_, _, _, _)
JoinKeys(ks, mine, theirs, f) ==
    IF ks = <<>> THEN <<>>
    ELSE (IF Head(ks) \in KeysOf(theirs)
          THEN <<Entry(Head(ks), Func2(f, LastValue(mine, Head(ks)), LastValue(theirs, Head(ks))))>>
          ELSE <<>>)
         \o JoinKeys(Tail(ks), mine, theirs, f)

RawJoin(rt, other, f) ==
    LET mine == RawCollect(rt)
        theirs == RawCollect(other)
    IN  Place(JoinKeys(DistinctKeys(mine, {}), mine, theirs, f), Len(rt))

RECURSIVE WithoutKeys(_, _)
WithoutKeys(es, ks) ==
    IF es = <<>> THEN <<>>
    ELSE (IF Head(es).k \in ks THEN <<>> ELSE <<Head(es)>>) \o WithoutKeys(Tail(es), ks)

RawSubtractByKey(rt, other) ==
    [p \in 1..Len(rt) |-> WithoutKeys(rt[p], KeysOf(RawCollect(other)))]

RECURSIVE UnionKeys(_, _, _, _)
UnionKeys(ks, mine, theirs, f) ==
    IF ks = <<>> THEN <<>>
    ELSE LET k == Head(ks)
         IN  <<Entry(k, IF k \in KeysOf(mine) /\ k \in KeysOf(theirs)
                        THEN Func2(f, LastValue(mine, k), LastValue(theirs, k))
                        ELSE IF k \in KeysOf(mine) THEN LastValue(mine, k)
                        ELSE LastValue(theirs, k))>>
             \o UnionKeys(Tail(ks), mine, theirs, f)

RawUnion(rt, other, f) ==
    LET mine == RawCollect(rt)
        theirs == RawCollect(other)
    IN  Place(UnionKeys(DistinctKeys(mine \o theirs, {}), mine, theirs, f), Len(rt))

(***************************************************************************)
(* Table: the transformation operators.  Each wraps the RawTable its       *)
(* delegate returns in a new Table object.  A result is the heaps after    *)
(* the call and the index of the Table returned.                           *)
(***************************************************************************)
Self(self) == raw[tables[self].table]

\* Table(table): a new Table object wrapping a new RawTable.
Table(rawtable) ==
    [status |-> "ok",
     raw    |-> Append(raw, rawtable),
     tables |-> Append(tables, [table |-> Len(raw) + 1, schema |-> EmptyDict]),
     ret    |-> Len(tables) + 1]

\* The delegate threw: no Table is constructed.
Thrown(exc) == [status |-> exc, raw |-> raw, tables |-> tables, ret |-> 0]

map(self, func) == Table(RawMap(Self(self), func))

mapValues_in_place(self, func) ==
    [status |-> "ok",
     raw    |-> [raw EXCEPT ![tables[self].table] = RawMapValues(Self(self), func)],
     tables |-> tables,
     ret    |-> self]

mapValues(self, func) == Table(RawMapValues(Self(self), func))

flatMap(self, func) == Table(RawFlatMap(Self(self), func))

mapPartitions(self, func) == Table(RawMapPartitions(Self(self), func))

mapPartitions2(self, func) == Table(RawMapPartitions(Self(self), func))

glom(self) == Table(RawGlom(Self(self)))

sample(self, fraction, seed) ==
    IF RawSampleRaises(fraction)
    THEN Thrown("ValueError")
    ELSE Table(RawSample(Self(self), fraction, seed))

filter(self, func) == Table(RawFilter(Self(self), func))

join(self, other, func) == Table(RawJoin(Self(self), Self(other), func))

subtractByKey(self, other) == Table(RawSubtractByKey(Self(self), Self(other)))

union(self, other, func) == Table(RawUnion(Self(self), Self(other), func))

Transformations ==
    {"map", "mapValues", "flatMap", "mapPartitions", "mapPartitions2", "glom", "sample",
     "filter", "join", "subtractByKey", "union"}

\* The caller keeps at most MaxTables Table objects.
Transform(op, self, args, r) ==
    /\ Len(tables) < MaxTables
    /\ raw' = r.raw
    /\ tables' = r.tables
    /\ last' = Call(op, self, args,
                    IF r.status = "ok" THEN Ok(r.ret, 0, 0) ELSE Raise(r.status, 0, 0))
    /\ UNCHANGED <<schema, service_url, requests>>

DoMap ==
    \E t \in DOMAIN tables, f \in MapFuncs : Transform("map", t, <<f>>, map(t, f))

DoMapValues ==
    \E t \in DOMAIN tables, f \in ValueFuncs :
        Transform("mapValues", t, <<f>>, mapValues(t, f))

DoFlatMap ==
    \E t \in DOMAIN tables, f \in FlatMapFuncs : Transform("flatMap", t, <<f>>, flatMap(t, f))

DoMapPartitions ==
    \E t \in DOMAIN tables, f \in PartitionFuncs :
        Transform("mapPartitions", t, <<f>>, mapPartitions(t, f))

DoMapPartitions2 ==
    \E t \in DOMAIN tables, f \in PartitionFuncs :
        Transform("mapPartitions2", t, <<f>>, mapPartitions2(t, f))

DoGlom ==
    \E t \in DOMAIN tables : Transform("glom", t, <<>>, glom(t))

DoSample ==
    \E t \in DOMAIN tables, fraction \in Fractions, seed \in Seeds :
        Transform("sample", t, <<fraction, seed>>, sample(t, fraction, seed))

DoFilter ==
    \E t \in DOMAIN tables, f \in Preds : Transform("filter", t, <<f>>, filter(t, f))

DoJoin ==
    \E t \in DOMAIN tables, o \in DOMAIN tables, f \in JoinFuncs :
        Transform("join", t, <<o, f>>, join(t, o, f))

DoSubtractByKey ==
    \E t \in DOMAIN tables, o \in DOMAIN tables :
        Transform("subtractByKey", t, <<o>>, subtractByKey(t, o))

DoUnion ==
    \E t \in DOMAIN tables, o \in DOMAIN tables, f \in UnionFuncs :
        Transform("union", t, <<o, f>>, union(t, o, f))

NextTransform ==
    \/ DoCount \/ DoCollect \/ DoTake \/ DoFirst \/ DoReduce
    \/ DoMap \/ DoMapValues \/ DoFlatMap \/ DoMapPartitions \/ DoMapPartitions2
    \/ DoGlom \/ DoSample \/ DoFilter \/ DoJoin \/ DoSubtractByKey \/ DoUnion

\* The initial tables whose Entries sit where the Partitioner puts them.
PlacedTables ==
    { rt \in InitTables :
        \A p \in DOMAIN rt : \A i \in DOMAIN rt[p] :
            Partitioner(rt[p][i].k, NumPartitions) + 1 = p }

InitTransform == InitWith(PlacedTables, {EmptyDict}, {EmptyDict})

SpecTransform == InitTransform /\ [][NextTransform]_vars

(***************************************************************************)
(* PulsarManager: the namespace calls.  A string is a sequence of pieces;  *)
(* a request is recorded with the call that sent it.                       *)
(***************************************************************************)
Hosts == {<<"localhost", "8080">>, <<"localhost", "8081">>}

Tenants == {"geo-tenant", "t2"}

Namespaces == {"geo-namespace", "ns2"}

Policies == {EmptyDict, [replication_clusters |-> <<"standalone", "cluster2">>]}

\* str.format: each "{}" of the template replaced by the next argument.
RECURSIVE Format(_, _)
Format(template, args) ==
    IF template = <<>> THEN <<>>
    ELSE IF Head(template) = "{}"
         THEN <<Head(args)>> \o Format(Tail(template), Tail(args))
         ELSE <<Head(template)>> \o Format(Tail(template), args)

RECURSIVE JsonList(_)
JsonList(xs) ==
    IF xs = <<>> THEN <<>>
    ELSE <<"\"", Head(xs), "\"">> \o (IF Tail(xs) = <<>> THEN <<>> ELSE <<", ">>)
         \o JsonList(Tail(xs))

\* json.dumps of a policies dict.
JsonDumps(d) ==
    IF DOMAIN d = {} THEN <<"{", "}">>
    ELSE <<"{", "\"", "replication_clusters", "\"", ": ", "[">>
         \o JsonList(d.replication_clusters) \o <<"]", "}">>

\* PulsarManager.__init__
ServiceUrl(address, port) == Format(<<"http://", "{}", ":", "{}", "/admin/v2/">>, <<address, port>>)

Request(op, tenant, namespace, method, url, data) ==
    [op |-> op, tenant |-> tenant, namespace |-> namespace, method |-> method,
     url |-> url, data |-> data]

get_namespace(tenant) ==
    Request("get_namespace", tenant, "", "GET",
            service_url \o Format(<<"namespaces/", "{}">>, <<tenant>>), <<>>)

create_namespace(tenant, namespace, policies) ==
    Request("create_namespace", tenant, namespace, "PUT",
            service_url \o Format(<<"namespaces/", "{}", "/", "{}">>, <<tenant, namespace>>),
            JsonDumps(policies))

delete_namespace(tenant, namespace) ==
    Request("delete_namespace", tenant, namespace, "DELETE",
            service_url \o Format(<<"namespace/", "{}", "/", "{}">>, <<tenant, namespace>>),
            <<>>)

Send(request) ==
    /\ Len(requests) < MaxRequests
    /\ requests' = Append(requests, request)
    /\ UNCHANGED <<raw, tables, schema, last, service_url>>

DoGetNamespace == \E t \in Tenants : Send(get_namespace(t))

DoCreateNamespace ==
    \E t \in Tenants, n \in Namespaces, policies \in Policies :
        Send(create_namespace(t, n, policies))

DoDeleteNamespace == \E t \in Tenants, n \in Namespaces : Send(delete_namespace(t, n))

InitPulsar ==
    /\ raw = <<[p \in 1..NumPartitions |-> <<>>]>>
    /\ tables = <<[table |-> 1, schema |-> EmptyDict]>>
    /\ schema = EmptyDict
    /\ last = NoCall
    /\ \E h \in Hosts : service_url = ServiceUrl(h[1], h[2])
    /\ requests = <<>>

NextPulsar == DoGetNamespace \/ DoCreateNamespace \/ DoDeleteNamespace

SpecPulsar == InitPulsar /\ [][NextPulsar]_vars

(***************************************************************************)
(* Properties of take, first and reduce.                                   *)
(***************************************************************************)
Received == raw[tables[last.self].table]

\* Sum of the lengths of the partitions before partition p.
RECURSIVE Before(_, _)
Before(rt, p) == IF p <= 1 THEN 0 ELSE Len(rt[p - 1]) + Before(rt, p - 1)

\* The i-th Entry in partition-major, insertion-minor order.
PartitionMajor(rt, i) ==
    LET p == CHOOSE q \in 1..Len(rt) : Before(rt, q) < i /\ i <= Before(rt, q) + Len(rt[q])
    IN  rt[p][i - Before(rt, p)]

\* C1: take(n) with n <= 0 fails with ValueError on every Table, before
\* collect() is called: no Entry is read and nothing is returned.
TakeNonPositiveFails ==
    (last.op = "take" /\ last.args[1] <= 0) =>
        /\ last.status = "ValueError"
        /\ last.collects = 0
        /\ last.read = 0
        /\ last.value = NoValue

TakeNonPositiveWitness ==
    /\ last.op = "take"
    /\ last.args[1] = 0
    /\ last.status = "ValueError"
    /\ RawCount(Received) > 0

\* C2: take(n) with n >= 1 returns exactly the first min(n, count) Entries
\* of collect()'s order (partition index ascending, insertion order within
\* a partition): an empty list for an empty Table, never more than n.
TakeReturnsPrefix ==
    (last.op = "take" /\ last.args[1] >= 1) =>
        LET n == last.args[1]
            m == Min(n, RawCount(Received))
        IN  /\ last.status = "ok"
            /\ Len(last.value) = m
            /\ Len(last.value) <= n
            /\ \A i \in 1..m : last.value[i] = PartitionMajor(Received, i)
            /\ last.value = SubSeq(collect(last.self), 1, m)

TakeReturnsPrefixWitness ==
    /\ last.op = "take"
    /\ last.status = "ok"
    /\ last.args[1] < RawCount(Received)
    /\ Len(Received[1]) >= 1
    /\ Len(last.value) > Len(Received[1])

\* C3: first() fails with RuntimeError if and only if the Table has zero
\* Entries; otherwise it returns take(1)[0], the first Entry of collect().
FirstFailsIffEmpty ==
    last.op = "first" =>
        /\ last.status = "RuntimeError" <=> RawCount(Received) = 0
        /\ RawCount(Received) > 0 =>
              /\ last.status = "ok"
              /\ last.value = take(last.self, 1).value[1]
              /\ last.value = PartitionMajor(Received, 1)

FirstFailsIffEmptyWitness ==
    /\ last.op = "first"
    /\ last.status = "RuntimeError"
    /\ RawCount(Received) = 0

\* The values, in order, of the Entries of it whose key key_func maps to g.
RECURSIVE GroupValues(_, _, _)
GroupValues(it, key_func, g) ==
    IF it = <<>> THEN <<>>
    ELSE (IF KeyFunc(key_func, Head(it).k) = g THEN <<Head(it).v>> ELSE <<>>)
         \o GroupValues(Tail(it), key_func, g)

\* The left fold of a non-empty sequence of values, seeded with its first.
RECURSIVE FoldLeft(_, _)
FoldLeft(func, vs) ==
    IF Len(vs) = 1 THEN vs[1]
    ELSE Func(func, FoldLeft(func, SubSeq(vs, 1, Len(vs) - 1)), vs[Len(vs)])

\* Whether processing Entry i of it throws, given that no earlier Entry did.
RaisesAt(it, func, key_func, i) ==
    \/ KeyFuncRaises(key_func, it[i].k)
    \/ LET seen == GroupValues(SubSeq(it, 1, i - 1), key_func, KeyFunc(key_func, it[i].k))
       IN  seen # <<>> /\ FuncRaises(func, FoldLeft(func, seen), it[i].v)

\* C4: reduce(func, key_func) returns a mapping whose key set is exactly
\* { key_func(k) } over the Table's Entries, each value the left fold in
\* collect() order of the group's values seeded with the group's first
\* value; func is called (group size - 1) times per group and never for a
\* group's first Entry.
ReduceGroupsAndFolds ==
    (last.op = "reduce" /\ last.args[2] # "None") =>
        LET func     == last.args[1]
            key_func == last.args[2]
            it       == collect(last.self)
            FuncCalls(g) == { c \in DOMAIN last.calls :
                                /\ last.calls[c].fn = "func"
                                /\ KeyFunc(key_func, it[last.calls[c].entry].k) = g }
        IN  /\ (\A i \in DOMAIN it : ~RaisesAt(it, func, key_func, i)) => last.status = "ok"
            /\ last.status = "ok" =>
                  /\ DOMAIN last.value = { KeyFunc(key_func, it[i].k) : i \in DOMAIN it }
                  /\ \A g \in DOMAIN last.value :
                        /\ last.value[g] = FoldLeft(func, GroupValues(it, key_func, g))
                        /\ Cardinality(FuncCalls(g)) = Len(GroupValues(it, key_func, g)) - 1
                        /\ \A c \in FuncCalls(g) :
                              \E j \in 1..(last.calls[c].entry - 1) :
                                  KeyFunc(key_func, it[j].k) = g

ReduceGroupsAndFoldsWitness ==
    /\ last.op = "reduce"
    /\ last.status = "ok"
    /\ last.args = <<"twice", "const">>
    /\ RawCount(Received) = 3
    /\ Len(Received[1]) = 1

\* C9: when func or key_func throws while reduce(func, key_func) processes
\* an Entry, the failure reaches the caller, reduce stops at that Entry (no
\* later Entry is read, no later call is made) and no mapping is returned.
ReduceFailurePropagates ==
    (last.op = "reduce" /\ last.args[2] # "None") =>
        LET func     == last.args[1]
            key_func == last.args[2]
            it       == collect(last.self)
            bad      == { i \in DOMAIN it : RaisesAt(it, func, key_func, i) }
        IN  /\ bad # {} =>
                  /\ last.status = "raised"
                  /\ last.value = NoValue
                  /\ \A i \in bad : last.read <= i
                  /\ last.read \in bad
            /\ \A c \in DOMAIN last.calls :
                  last.calls[c].raised =>
                      /\ c = Len(last.calls)
                      /\ last.status = "raised"
                      /\ last.calls[c].entry = last.read
            /\ last.status = "raised" =>
                  /\ last.calls # <<>>
                  /\ last.calls[Len(last.calls)].raised

ReduceFailurePropagatesWitness ==
    /\ last.op = "reduce"
    /\ last.status = "raised"
    /\ last.args = <<"fail_on_c", "const">>
    /\ last.read = 2
    /\ RawCount(Received) = 3

\* C5: save with an address that is not an EggRollAddress fails with
\* NotImplementedError, never calls save_as, and leaves the caller's schema
\* mapping as it was.
SaveUnsupportedAddress ==
    (last.op = "save" /\ last.args[1].kind # "EggRollAddress") =>
        /\ last.status = "NotImplementedError"
        /\ last.calls = <<>>
        /\ schema = last.args[3]

SaveUnsupportedAddressWitness ==
    /\ last.op = "save"
    /\ last.args[1].kind = "StandaloneAddress"
    /\ last.status = "NotImplementedError"
    /\ DOMAIN tables[last.self].schema # {}
    /\ DOMAIN schema # DOMAIN tables[last.self].schema

\* C6: save with an EggRollAddress calls save_as exactly once, with the
\* address's name and namespace, the caller's partition count and
\* need_cleanup = False, before the schema mapping is touched; when save_as
\* throws, save throws the same error and the schema mapping is unchanged.
SavePersistsOnceFirst ==
    (last.op = "save" /\ last.args[1].kind = "EggRollAddress") =>
        /\ Len(last.calls) = 1
        /\ last.calls[1].fn = "save_as"
        /\ last.calls[1].name = last.args[1].name
        /\ last.calls[1].namespace = last.args[1].namespace
        /\ last.calls[1].partition = last.args[2]
        /\ last.calls[1].need_cleanup = FALSE
        /\ last.calls[1].schema_seen = last.args[3]
        /\ last.calls[1].raised <=> last.status = "IOError"
        /\ ~last.calls[1].raised <=> last.status = "ok"
        /\ last.calls[1].raised => schema = last.args[3]

SavePersistsOnceFirstWitness ==
    /\ last.op = "save"
    /\ last.args[1].kind = "EggRollAddress"
    /\ last.status = "IOError"
    /\ Len(last.calls) = 1
    /\ DOMAIN tables[last.self].schema = SchemaKeys
    /\ DOMAIN schema = {"sid"}

\* C7: a successful save updates the caller's schema mapping in place: every
\* key of the Table's schema maps to the Table's value, every other caller
\* key keeps its value; the Table's own schema is not modified.
SaveMergesSchema ==
    [][(last'.op = "save" /\ last'.status = "ok") =>
          LET own == tables[last'.self].schema
          IN  /\ DOMAIN schema' = DOMAIN schema \cup DOMAIN own
              /\ \A k \in DOMAIN own : schema'[k] = own[k]
              /\ \A k \in DOMAIN schema \ DOMAIN own : schema'[k] = schema[k]
              /\ tables'[last'.self].schema = own]_vars

SaveMergesSchemaWitness ==
    /\ last.op = "save"
    /\ last.status = "ok"
    /\ last.args[3] = [k \in SchemaKeys |-> "caller"]
    /\ DOMAIN tables[last.self].schema = {"header"}
    /\ schema = [k \in SchemaKeys |-> IF k = "header" THEN "table" ELSE "caller"]

DeleteNamespaceUsesCreateUrl ==
    \A i, j \in DOMAIN requests :
        (/\ requests[i].op = "create_namespace"
         /\ requests[j].op = "delete_namespace"
         /\ requests[i].tenant = requests[j].tenant
         /\ requests[i].namespace = requests[j].namespace)
        => requests[j].url = requests[i].url

====
